---- MODULE Spec2Model ----
(***************************************************************************)
(* tabliblib/dataframe_utils.py: write_dataframe_to_file, the per-record   *)
(* filtering pipeline that ends in a file write, and DataFrameFileDataSink,*)
(* which dispatches one such task per element of a dataset and contains    *)
(* every failure of the task to its element.                               *)
(*                                                                         *)
(* A table (pandas DataFrame) is [cols, rows]: cols the sequence of column *)
(* names, rows a sequence of functions from column name to cell.  A cell   *)
(* is a sequence of one-character strings (its text).  Optional values     *)
(* (Python None) are sequences: <<>> is None and <<v>> is the value v.     *)
(***************************************************************************)
EXTENDS Integers, Sequences, FiniteSets, TLC

\* Bounds of the model.
MaxRows == 2
MaxBatch == 2

Range(s) == {s[i] : i \in DOMAIN s}

----------------------------------------------------------------------------
(* pandas operations used by write_dataframe_to_file *)

\* len(df): the length of the index; a frame without columns keeps its index.
NumRows(df) == Len(df.rows)

\* df.empty: any axis of length 0.
IsEmpty(df) == Len(df.cols) = 0 \/ Len(df.rows) = 0

\* df[valid_colnames]: the named columns, in the order named, all rows kept.
SelectColumns(df, names) ==
    [cols |-> names,
     rows |-> [i \in DOMAIN df.rows |-> [c \in Range(names) |-> df.rows[i][c]]]]

\* the rows of df at the positions idx, in that order
TakeRows(df, idx) ==
    [cols |-> df.cols, rows |-> [k \in DOMAIN idx |-> df.rows[idx[k]]]]

\* positions of the rows satisfying keep, ascending
KeptPositions(keep) ==
    LET test(i) == keep[i] IN SelectSeq([i \in DOMAIN keep |-> i], test)

\* df.drop_duplicates(): an empty frame is returned as it is; otherwise a row
\* is dropped when an earlier row equals it in every column (keep="first").
DropDuplicates(df) ==
    IF IsEmpty(df) THEN df
    ELSE TakeRows(df, KeptPositions([i \in DOMAIN df.rows |->
             \A j \in DOMAIN df.rows : j < i => df.rows[j] # df.rows[i]]))

\* the sequences of n distinct positions out of 1..m, in any order
Arrangements(m, n) ==
    {s \in [1..n -> 1..m] : \A a, b \in 1..n : a # b => s[a] # s[b]}

\* df.sample(n=n, replace=False): n distinct rows, in a random order.
Sample(df, n) == {TakeRows(df, idx) : idx \in Arrangements(NumRows(df), n)}

----------------------------------------------------------------------------
(* tabliblib.filters and tabliblib.io, as the specification describes them *)

\* The dtype of a column, fixed by its name in the tables of this model: "n"
\* holds integers, "meta" a struct without child fields, any other column text.
Dtype(c) == CASE c = "n" -> "int64" [] c = "meta" -> "struct" [] OTHER -> "object"
IsStringColumn(c) == Dtype(c) = "object"

\* A null-like value: missing or the empty string.
IsNullLike(v) == v = <<>>

\* sub in x, for texts
ContainsText(x, sub) ==
    \E i \in 1..(Len(x) - Len(sub) + 1) : SubSeq(x, i, i + Len(sub) - 1) = sub

\* The opaque detectors: code is text with a brace, PII text with an at-sign.
contains_code(x) == "{" \in Range(x)
contains_pii(x) == "@" \in Range(x)

\* fetch_names_of_valid_columns: the columns, in order, whose header is short
\* enough, that hold enough distinct non-null-like values and whose fraction of
\* null-like values is at most max_null_like_frac (a pair <<num, den>>).
fetch_names_of_valid_columns(df, max_header_len_chars, min_unique_column_values, max_null_like_frac) ==
    LET values(c) == {df.rows[i][c] : i \in DOMAIN df.rows}
        nulls(c) == Cardinality({i \in DOMAIN df.rows : IsNullLike(df.rows[i][c])})
        valid(c) ==
            /\ Len(c) <= max_header_len_chars
            /\ Cardinality({v \in values(c) : ~IsNullLike(v)}) >= min_unique_column_values
            /\ nulls(c) * max_null_like_frac[2] <= max_null_like_frac[1] * NumRows(df)
    IN  SelectSeq(df.cols, valid)

\* sample_columns_if_needed: with more than max_cols columns, any max_cols of
\* them (kept here in their original order); otherwise the table unchanged.
sample_columns_if_needed(df, max_cols) ==
    IF Len(df.cols) > max_cols
    THEN {SelectColumns(df, SelectSeq(df.cols, LAMBDA c : c \in S)) :
            S \in {T \in SUBSET Range(df.cols) : Cardinality(T) = max_cols}}
    ELSE {df}

\* the cells of a table
Cells(df) == {df.rows[i][c] : i \in DOMAIN df.rows, c \in Range(df.cols)}

\* apply_row_based_filter: the rows in which no examined cell satisfies
\* filter_fn (a function from cell to BOOLEAN); with string_columns_only only
\* the text columns are examined and the other columns are retained unexamined.
apply_row_based_filter(df, filter_fn, string_columns_only) ==
    LET examined == {c \in Range(df.cols) : string_columns_only => IsStringColumn(c)}
    IN  TakeRows(df, KeptPositions([i \in DOMAIN df.rows |->
            \A c \in examined : ~filter_fn[df.rows[i][c]]]))

\* Encoded table bytes: a magic word and the payload.
ArrowBytes(table) == [magic |-> "ARROW1", payload |-> table]
CanDecode(bytes) == bytes.magic = "ARROW1"
\* read_arrow_bytes(bytes, raise_on_error=True), when it does not raise
read_arrow_bytes(bytes) == bytes.payload

----------------------------------------------------------------------------
(* write_dataframe_to_file.  The state of one call is [df, ran, status,     *)
(* exc, wrote]: the local table; the stages applied so far, each with the   *)
(* table it left; "running" until the call returns the row ("returned") or  *)
(* raises ("raised"); the exception raised; whether a file was written.     *)
(* Each stage maps a call state to the set of call states it can lead to    *)
(* (sampling is random).  Every record holds a content_hash.                *)

EmptyTable == [cols |-> <<>>, rows |-> <<>>]
Running(st) == st.status = "running"
Apply(st, stage, table) ==
    [st EXCEPT !.df = table, !.ran = Append(@, [stage |-> stage, df |-> table])]
ReturnRow(st) == [st EXCEPT !.status = "returned"]
Raise(st, e) == [st EXCEPT !.status = "raised", !.exc = e]
Start(table) ==
    [df |-> table, ran |-> <<[stage |-> "load", df |-> table]>>, status |-> "running",
     exc |-> "", wrote |-> FALSE]
Failed(e) == [df |-> EmptyTable, ran |-> <<>>, status |-> "raised", exc |-> e, wrote |-> FALSE]

\* Python truthiness of an optional integer: neither None nor 0.
Truthy(opt) == opt # <<>> /\ opt[1] # 0

\* (mutant) a decode failure is swallowed in the task and the row returned
LoadTableSuppressed(row) ==
    IF "df" \notin DOMAIN row
    THEN IF "arrow_bytes" \in DOMAIN row /\ CanDecode(row.arrow_bytes)
         THEN Start(read_arrow_bytes(row.arrow_bytes))
         ELSE ReturnRow(Failed(""))
    ELSE Start(row.df)

\* if "df" not in row: df = read_arrow_bytes(row["arrow_bytes"], raise_on_error=True)
\* else: df = row["df"]
LoadTable(row) ==
    IF "df" \notin DOMAIN row
    THEN IF "arrow_bytes" \notin DOMAIN row
         THEN Failed("KeyError")
         ELSE IF CanDecode(row.arrow_bytes)
              THEN Start(read_arrow_bytes(row.arrow_bytes))
              ELSE Failed("ArrowInvalid")
    ELSE Start(row.df)

\* if config.drop_invalid_cols: df = df[fetch_names_of_valid_columns(df, ...)]
ColumnValidation(st, config) ==
    IF Running(st) /\ config.drop_invalid_cols
    THEN {Apply(st, "column_validation",
             SelectColumns(st.df,
                 fetch_names_of_valid_columns(st.df, config.max_header_len_chars,
                     config.min_unique_column_values, config.max_null_like_frac)))}
    ELSE {st}

\* if config.drop_extra_cols: df = sample_columns_if_needed(df, max_cols=config.max_cols)
ColumnReduction(st, config) ==
    IF Running(st) /\ config.drop_extra_cols
    THEN {Apply(st, "column_reduction", d) :
            d \in sample_columns_if_needed(st.df, config.max_cols)}
    ELSE {st}

\* (mutant) the emptiness check after a row filter is missing
AfterRowFilterNoExit(st, stage, filtered) == Apply(st, stage, filtered)

\* a row filter has been applied: return the row when no row is left
AfterRowFilter(st, stage, filtered) ==
    IF NumRows(filtered) = 0
    THEN ReturnRow(Apply(st, stage, filtered))
    ELSE Apply(st, stage, filtered)

\* if config.max_value_len_chars: ... len(str(x)) > config.max_value_len_chars
ValueLengthFilter(st, config) ==
    IF Running(st) /\ Truthy(config.max_value_len_chars)
    THEN LET too_long == [x \in Cells(st.df) |-> Len(x) > config.max_value_len_chars[1]]
         IN  {AfterRowFilter(st, "value_length",
                             apply_row_based_filter(st.df, too_long, TRUE))}
    ELSE {st}

\* if config.filter_rows_containing_substrings: ... any(substr in str(x) ...)
SubstringFilter(st, config) ==
    IF Running(st) /\ config.filter_rows_containing_substrings # <<>>
    THEN LET _contains_substring_filter_fn == [x \in Cells(st.df) |->
                 \E k \in DOMAIN config.filter_rows_containing_substrings :
                     ContainsText(x, config.filter_rows_containing_substrings[k])]
         IN  {AfterRowFilter(st, "substring",
                 apply_row_based_filter(st.df, _contains_substring_filter_fn, TRUE))}
    ELSE {st}

\* if config.filter_rows_containing_code: ...
CodeFilter(st, config) ==
    IF Running(st) /\ config.filter_rows_containing_code
    THEN LET is_code == [x \in Cells(st.df) |-> contains_code(x)]
         IN  {AfterRowFilter(st, "code", apply_row_based_filter(st.df, is_code, TRUE))}
    ELSE {st}

\* if config.filter_rows_containing_pii: ...
PiiFilter(st, config) ==
    IF Running(st) /\ config.filter_rows_containing_pii
    THEN LET is_pii == [x \in Cells(st.df) |-> contains_pii(x)]
         IN  {AfterRowFilter(st, "pii", apply_row_based_filter(st.df, is_pii, TRUE))}
    ELSE {st}

\* if config.drop_duplicate_rows: df = df.drop_duplicates()
Deduplication(st, config) ==
    IF Running(st) /\ config.drop_duplicate_rows
    THEN {Apply(st, "deduplication", DropDuplicates(st.df))}
    ELSE {st}

\* (mutant) len(df) < config.min_rows - 1
MinRowsCheckOffByOne(st, config) ==
    IF Running(st) /\ config.min_rows # <<>>
    THEN {IF NumRows(st.df) < config.min_rows[1] - 1
          THEN ReturnRow(Apply(st, "min_rows", st.df))
          ELSE Apply(st, "min_rows", st.df)}
    ELSE {st}

\* (mutant) the check only warns: the return is missing
MinRowsCheckNoReturn(st, config) ==
    IF Running(st) /\ config.min_rows # <<>>
    THEN {Apply(st, "min_rows", st.df)}
    ELSE {st}

\* if config.min_rows is not None and len(df) < config.min_rows: return row
MinRowsCheck(st, config) ==
    IF Running(st) /\ config.min_rows # <<>>
    THEN {IF NumRows(st.df) < config.min_rows[1]
          THEN ReturnRow(Apply(st, "min_rows", st.df))
          ELSE Apply(st, "min_rows", st.df)}
    ELSE {st}

\* (mutant) len(df) >= config.max_output_rows
RowReductionAtLeast(st, config) ==
    IF Running(st) /\ config.drop_extra_rows /\ NumRows(st.df) >= config.max_output_rows
    THEN {IF NumRows(d) = 0
          THEN ReturnRow(Apply(st, "row_reduction", d))
          ELSE Apply(st, "row_reduction", d) :
            d \in Sample(st.df, config.max_output_rows)}
    ELSE {st}

\* (mutant) the emptiness check after sampling is missing
RowReductionNoExit(st, config) ==
    IF Running(st) /\ config.drop_extra_rows /\ NumRows(st.df) > config.max_output_rows
    THEN {Apply(st, "row_reduction", d) : d \in Sample(st.df, config.max_output_rows)}
    ELSE {st}

\* if config.drop_extra_rows and len(df) > config.max_output_rows:
\*     df = df.sample(n=config.max_output_rows, replace=False)
\*     if not len(df): return row
RowReduction(st, config) ==
    IF Running(st) /\ config.drop_extra_rows /\ NumRows(st.df) > config.max_output_rows
    THEN {IF NumRows(d) = 0
          THEN ReturnRow(Apply(st, "row_reduction", d))
          ELSE Apply(st, "row_reduction", d) :
            d \in Sample(st.df, config.max_output_rows)}
    ELSE {st}

\* the Parquet writer cannot write a struct column without child fields
CanWriteParquet(df) == \A c \in Range(df.cols) : Dtype(c) # "struct"

\* (mutant) the Parquet branch does not write
WriteTableParquetSkipped(st, output_format) ==
    IF ~Running(st) THEN {st}
    ELSE IF output_format = "csv"
    THEN {ReturnRow([Apply(st, "write", st.df) EXCEPT !.wrote = TRUE])}
    ELSE {ReturnRow(st)}

\* if output_format == "csv": df.to_csv(...) elif output_format == "parquet":
\* df.to_parquet(...); return row
WriteTable(st, output_format) ==
    IF ~Running(st) THEN {st}
    ELSE IF output_format = "csv"
    THEN {ReturnRow([Apply(st, "write", st.df) EXCEPT !.wrote = TRUE])}
    ELSE IF output_format = "parquet"
    THEN {IF CanWriteParquet(st.df)
          THEN ReturnRow([Apply(st, "write", st.df) EXCEPT !.wrote = TRUE])
          ELSE Raise(Apply(st, "write", st.df), "ArrowNotImplementedError")}
    ELSE {ReturnRow(st)}

\* (mutant) deduplication moved before the row filters
StagesDedupFirst(st0, config) ==
    LET s1 == ColumnValidation(st0, config)
        s2 == UNION {ColumnReduction(s, config) : s \in s1}
        s3 == UNION {Deduplication(s, config) : s \in s2}
        s4 == UNION {ValueLengthFilter(s, config) : s \in s3}
        s5 == UNION {SubstringFilter(s, config) : s \in s4}
        s6 == UNION {CodeFilter(s, config) : s \in s5}
        s7 == UNION {PiiFilter(s, config) : s \in s6}
        s8 == UNION {MinRowsCheck(s, config) : s \in s7}
    IN  UNION {RowReduction(s, config) : s \in s8}

\* the stages between loading the table and writing it, lines 42-95
Stages(st0, config) ==
    LET s1 == ColumnValidation(st0, config)
        s2 == UNION {ColumnReduction(s, config) : s \in s1}
        s3 == UNION {ValueLengthFilter(s, config) : s \in s2}
        s4 == UNION {SubstringFilter(s, config) : s \in s3}
        s5 == UNION {CodeFilter(s, config) : s \in s4}
        s6 == UNION {PiiFilter(s, config) : s \in s5}
        s7 == UNION {Deduplication(s, config) : s \in s6}
        s8 == UNION {MinRowsCheck(s, config) : s \in s7}
    IN  UNION {RowReduction(s, config) : s \in s8}

\* the final call states of write_dataframe_to_file(row, root_dir, output_format, config)
write_dataframe_to_file(row, output_format, config) ==
    UNION {WriteTable(s, output_format) : s \in Stages(LoadTable(row), config)}

\* (mutant) the processed table is put into the returned record
ReturnValueWithTable(row, st) == [content_hash |-> row.content_hash, df |-> st.df]

\* return row
ReturnValue(row, st) == row

----------------------------------------------------------------------------
(* DataFrameFileDataSink *)

VARIABLES
    config,         \* the PreprocessConfig of the sink
    output_format,  \* the output_format of the sink
    dataset,        \* the elements given to write(), in order
    calls,          \* the call state of the task of each element dispatched so far
    results,        \* what _write_element returned for each element, in order
    files,          \* the files written under base_path
    root_exists,    \* whether base_path exists
    propagated      \* whether an exception left _write_element

vars == <<config, output_format, dataset, calls, results, files, root_exists, propagated>>

\* "__".join((str(row["content_hash"]), df_uuid)) + "." + output_format;
\* uuid.uuid1() gives the n-th call a token of its own.
FileName(row, n, format) == <<row.content_hash, n, format>>

\* The task of the next element is pending between its dispatch and ray.get.
Pending == Len(calls) = Len(results) + 1

\* future = write_dataframe_to_file.options(...).remote(element, self.base_path,
\* self.output_format, config=self.config): the task runs to its end.
Dispatch ==
    /\ ~propagated
    /\ ~Pending
    /\ Len(results) < Len(dataset)
    /\ LET n == Len(results) + 1
           element == dataset[n]
       IN  \E st \in write_dataframe_to_file(element, output_format, config) :
               /\ calls' = Append(calls, st)
               /\ files' = IF st.wrote
                           THEN Append(files, [name |-> FileName(element, n, output_format),
                                               index |-> n, table |-> st.df])
                           ELSE files
    /\ root_exists' = TRUE
    /\ UNCHANGED <<config, output_format, dataset, results, propagated>>

\* return ray.get(future), the task having returned
GetResult ==
    /\ Pending
    /\ calls[Len(calls)].status = "returned"
    /\ results' = Append(results, ReturnValue(dataset[Len(calls)], calls[Len(calls)]))
    /\ UNCHANGED <<config, output_format, dataset, calls, files, root_exists, propagated>>

\* except pa.lib.ArrowNotImplementedError as e: ...; return element
CatchArrowNotImplementedError ==
    /\ Pending
    /\ calls[Len(calls)].status = "raised"
    /\ calls[Len(calls)].exc = "ArrowNotImplementedError"
    /\ results' = Append(results, dataset[Len(calls)])
    /\ UNCHANGED <<config, output_format, dataset, calls, files, root_exists, propagated>>

\* (mutant) the exception is raised again
CatchExceptionReraise ==
    /\ Pending
    /\ calls[Len(calls)].status = "raised"
    /\ calls[Len(calls)].exc # "ArrowNotImplementedError"
    /\ propagated' = TRUE
    /\ UNCHANGED <<config, output_format, dataset, calls, results, files, root_exists>>

\* except Exception as e: ...; return element
CatchException ==
    /\ Pending
    /\ calls[Len(calls)].status = "raised"
    /\ calls[Len(calls)].exc # "ArrowNotImplementedError"
    /\ results' = Append(results, dataset[Len(calls)])
    /\ UNCHANGED <<config, output_format, dataset, calls, files, root_exists, propagated>>

Next == Dispatch \/ GetResult \/ CatchArrowNotImplementedError \/ CatchException

----------------------------------------------------------------------------
(* The configurations, tables and datasets of the model *)

\* Every combination of the stage switches, each threshold unset or set;
\* max_output_rows matters only with drop_extra_rows.
Configs ==
    {c \in [drop_invalid_cols : BOOLEAN,
            max_header_len_chars : {4},
            min_unique_column_values : {1},
            max_null_like_frac : {<<1, 2>>},
            drop_extra_cols : BOOLEAN,
            max_cols : {1},
            max_value_len_chars : {<<>>, <<1>>},
            filter_rows_containing_substrings : {<<>>, << <<"#">> >>},
            filter_rows_containing_code : BOOLEAN,
            filter_rows_containing_pii : BOOLEAN,
            drop_duplicate_rows : BOOLEAN,
            min_rows : {<<>>, <<0>>, <<2>>},
            drop_extra_rows : BOOLEAN,
            max_output_rows : {0, 1, 2}] :
        ~c.drop_extra_rows => c.max_output_rows = 1}

\* Everything off, and everything on (with max_value_len_chars 0, 1 or unset).
FewConfigs ==
    {[c EXCEPT !.max_value_len_chars = m] :
        c \in {d \in Configs :
                 /\ d.drop_invalid_cols = d.drop_extra_cols
                 /\ d.drop_extra_cols = d.filter_rows_containing_code
                 /\ d.filter_rows_containing_code = d.filter_rows_containing_pii
                 /\ d.filter_rows_containing_pii = d.drop_duplicate_rows
                 /\ d.drop_duplicate_rows = d.drop_extra_rows
                 /\ d.drop_extra_rows = (d.filter_rows_containing_substrings # <<>>)
                 /\ d.drop_extra_rows = (d.min_rows = <<0>>)
                 /\ d.max_output_rows = 1
                 /\ d.max_value_len_chars = <<>>},
        m \in {<<>>, <<0>>, <<1>>}}

\* The cells a column can hold.  In the text column: an empty text, a clean
\* one, one with the forbidden substring, one of code (the only one longer than
\* max_value_len_chars) and one with PII.
CellsOf(c) ==
    CASE c = "s" -> {<<>>, <<"a">>, <<"#">>, <<"{", "}">>, <<"@">>}
      [] c = "n" -> {<<"7", "7", "7">>}
      [] c = "meta" -> {<<"{", "}">>}
      [] OTHER -> {<<"b">>}

RowsOver(cols) == {r \in [Range(cols) -> UNION {CellsOf(c) : c \in Range(cols)}] :
                     \A c \in Range(cols) : r[c] \in CellsOf(c)}

\* the tables with these columns and at most max rows
TablesOver(cols, max) ==
    {[cols |-> cols, rows |-> rows] :
        rows \in UNION {[1..k -> RowsOver(cols)] : k \in 0..max}}

\* a text column, an integer column and a column with a long header
Tables == TablesOver(<<"s", "n", "long_header">>, MaxRows)

\* a text column and a struct column without child fields
StructTables == TablesOver(<<"s", "meta">>, 1)

\* one-row tables with or without the struct column, clean or with a forbidden substring
FewTables ==
    {t \in TablesOver(<<"s", "meta">>, 1) \cup TablesOver(<<"s">>, 1) :
        NumRows(t) = 1 /\ t.rows[1]["s"] \in {<<"a">>, <<"#">>}}

\* the content hash of the n-th element
Hash(n) == <<"h", n>>

\* The records holding a table of T: in memory, or as encoded bytes; and the
\* records without a usable table: corrupt bytes, or neither field.
RecordsOver(T, n) ==
    {[content_hash |-> Hash(n), df |-> t] : t \in T}
    \cup {[content_hash |-> Hash(n), arrow_bytes |-> ArrowBytes(t)] : t \in T}
    \cup {[content_hash |-> Hash(n), arrow_bytes |-> [magic |-> "junk", payload |-> EmptyTable]],
          [content_hash |-> Hash(n)]}

\* the datasets of 1..MaxBatch records over FewTables
FewDatasets ==
    UNION {{d \in [1..k -> UNION {RecordsOver(FewTables, n) : n \in 1..k}] :
              \A n \in 1..k : d[n] \in RecordsOver(FewTables, n)} : k \in 1..MaxBatch}

\* One record under every configuration, written as CSV; one record with a
\* struct column, or without a usable table, under every configuration, written
\* as Parquet; a batch of records under a few configurations and both formats.
InitInputs ==
    \/ /\ config \in Configs
       /\ output_format = "csv"
       /\ dataset \in {<<[content_hash |-> Hash(1), df |-> t]>> : t \in Tables}
    \/ /\ config \in Configs
       /\ output_format = "parquet"
       /\ dataset \in {<<r>> : r \in RecordsOver(StructTables, 1)}
    \/ /\ config \in FewConfigs
       /\ output_format \in {"csv", "parquet"}
       /\ dataset \in FewDatasets

Init ==
    /\ InitInputs
    /\ calls = <<>>
    /\ results = <<>>
    /\ files = <<>>
    /\ root_exists = FALSE
    /\ propagated = FALSE

Spec == Init /\ [][Next]_vars

----------------------------------------------------------------------------
(* Properties *)

Last(seq) == seq[Len(seq)]
Order ==
    <<"load", "column_validation", "column_reduction", "value_length", "substring",
      "code", "pii", "deduplication", "min_rows", "row_reduction", "write">>
Positions == [stage \in Range(Order) |-> CHOOSE i \in DOMAIN Order : Order[i] = stage]
Position(stage) == Positions[stage]
ColumnStages == {"column_validation", "column_reduction"}
RowFilterStages == {"value_length", "substring", "code", "pii"}
RowStages == RowFilterStages \cup {"deduplication", "row_reduction"}

\* the files written for the n-th element
FilesOf(n) == {k \in DOMAIN files : files[k].index = n}
\* _write_element has returned the n-th element unchanged, if it has returned
PassedThrough(n) == n \in DOMAIN results => results[n] = dataset[n]
\* (the properties of a call are stated of the elements _write_element has
\* returned: calls, files and results do not change for them afterwards)
\* the call returned the row without writing, and nothing was written for it
RejectedAt(n) ==
    /\ calls[n].status = "returned"
    /\ ~calls[n].wrote
    /\ FilesOf(n) = {}
    /\ PassedThrough(n)
\* the call was rejected: filtered or sampled to no rows, or below min_rows
Rejected(st) ==
    /\ st.status = "returned"
    /\ st.ran # <<>>
    /\ \/ Last(st.ran).stage \in RowFilterStages \cup {"row_reduction"}
          /\ NumRows(Last(st.ran).df) = 0
       \/ Last(st.ran).stage = "min_rows"
          /\ NumRows(Last(st.ran).df) < config.min_rows[1]
\* the record has no in-memory table and its bytes do not decode
DecodeFails(row) ==
    "df" \notin DOMAIN row /\ "arrow_bytes" \in DOMAIN row /\ ~CanDecode(row.arrow_bytes)
\* whether the configuration asks for a stage
Enabled(stage) ==
    CASE stage = "column_validation" -> config.drop_invalid_cols
      [] stage = "column_reduction" -> config.drop_extra_cols
      [] stage = "value_length" -> Truthy(config.max_value_len_chars)
      [] stage = "substring" -> config.filter_rows_containing_substrings # <<>>
      [] stage = "code" -> config.filter_rows_containing_code
      [] stage = "pii" -> config.filter_rows_containing_pii
      [] stage = "deduplication" -> config.drop_duplicate_rows
      [] stage = "min_rows" -> config.min_rows # <<>>
      [] stage = "row_reduction" -> config.drop_extra_rows
      [] OTHER -> TRUE

\* C1: a task that raises (the ArrowNotImplementedError of the write, or any
\* other exception) never makes an exception leave _write_element; the element is
\* returned unchanged; and the dataset goes on: while elements remain a step is
\* possible, and the task of every later element is a run of
\* write_dataframe_to_file on that element alone, as without the failure.
FaultContainment ==
    /\ ~propagated
    /\ \A n \in DOMAIN calls :
           calls[n].status = "raised"
           => /\ PassedThrough(n)
              /\ Len(results) < Len(dataset) => ENABLED Next
              /\ \A m \in DOMAIN calls :
                     m > n => calls[m] \in
                         write_dataframe_to_file(dataset[m], output_format, config)

\* an element whose task raised ArrowNotImplementedError was returned and a
\* later element was written
FaultContainmentWitness ==
    \E n, m \in DOMAIN results :
        /\ n < m
        /\ calls[n].exc = "ArrowNotImplementedError"
        /\ results[n] = dataset[n]
        /\ calls[m].wrote

\* C2 as stated: after ANY stage that leaves the table without rows (a column
\* stage, a row filter, the deduplication, the sampling) no later stage runs,
\* no file is written and the original record is returned.
EarlyExitAfterAnyStage ==
    \A n \in DOMAIN results : \A k \in DOMAIN calls[n].ran :
        /\ calls[n].ran[k].stage \in ColumnStages \cup RowStages
        /\ NumRows(calls[n].ran[k].df) = 0
        => k = Len(calls[n].ran) /\ RejectedAt(n)

\* C2 amended: after a row filter (value length, substring, code, PII) or the
\* row sampling leaves the table without rows, no later stage runs, no file is
\* written and the original record is returned.
EarlyExitAfterRowFilter ==
    \A n \in DOMAIN results : \A k \in DOMAIN calls[n].ran :
        /\ calls[n].ran[k].stage \in RowFilterStages \cup {"row_reduction"}
        /\ NumRows(calls[n].ran[k].df) = 0
        => k = Len(calls[n].ran) /\ RejectedAt(n)

\* a row filter emptied a table that had rows, with later stages switched on,
\* and the element was returned
EarlyExitWitness ==
    \E n \in DOMAIN results :
        /\ Last(calls[n].ran).stage = "value_length"
        /\ NumRows(Last(calls[n].ran).df) = 0
        /\ NumRows(calls[n].ran[1].df) > 0
        /\ config.filter_rows_containing_code /\ config.drop_duplicate_rows
        /\ config.min_rows # <<>> /\ config.drop_extra_rows

\* C3 as stated: the failure to decode arrow_bytes leaves the dispatcher; no
\* pass-through result is made of it.
DecodeFailurePropagates ==
    \A n \in DOMAIN calls :
        DecodeFails(dataset[n]) /\ ~(Pending /\ n = Len(calls))
        => propagated /\ n \notin DOMAIN results

\* C3 amended: the failure to decode is raised by write_dataframe_to_file (no
\* stage runs, nothing is written), and _write_element catches it like any other
\* exception and returns the original record; nothing leaves the dispatcher.
DecodeFailureContained ==
    \A n \in DOMAIN calls :
        DecodeFails(dataset[n])
        => /\ calls[n].status = "raised"
           /\ calls[n].ran = <<>>
           /\ FilesOf(n) = {}
           /\ PassedThrough(n)
           /\ ~propagated

\* a record with corrupt bytes has been returned by _write_element
DecodeFailureWitness ==
    \E n \in DOMAIN results : DecodeFails(dataset[n]) /\ results[n] = dataset[n]

\* C4: with min_rows configured, a table that has fewer than min_rows rows after
\* the row filters and the deduplication is rejected at the check: the record is
\* returned unchanged, no sampling is applied and no file is written; so neither
\* the sampling nor the write ever follows a table below min_rows.
MinRowsRejection ==
    \A n \in DOMAIN results : \A k \in DOMAIN calls[n].ran :
        /\ calls[n].ran[k].stage = "min_rows"
           /\ NumRows(calls[n].ran[k].df) < config.min_rows[1]
           => k = Len(calls[n].ran) /\ RejectedAt(n)
        /\ config.min_rows # <<>> /\ k > 1
           /\ calls[n].ran[k].stage \in {"row_reduction", "write"}
           /\ calls[n].ran[k - 1].stage # "row_reduction"
           => /\ calls[n].ran[k - 1].stage = "min_rows"
              /\ NumRows(calls[n].ran[k - 1].df) >= config.min_rows[1]

\* a table with rows, but fewer than min_rows, was rejected with sampling on
MinRowsRejectionWitness ==
    \E n \in DOMAIN results :
        /\ Last(calls[n].ran).stage = "min_rows"
        /\ NumRows(calls[n].df) = 1
        /\ config.min_rows = <<2>>
        /\ config.drop_extra_rows /\ config.max_output_rows = 0
        /\ calls[n].status = "returned"

\* C5: exactly one file, holding the processed table under the element's name,
\* is written for each element whose task went through every stage and
\* returned; none for an element that was rejected or whose task raised; and
\* no two files share a name.
OneFilePerSurvivingRecord ==
    /\ \A n \in DOMAIN results :
           IF calls[n].status = "returned" /\ ~Rejected(calls[n])
           THEN /\ Cardinality(FilesOf(n)) = 1
                /\ \A k \in FilesOf(n) :
                       /\ files[k].table = calls[n].df
                       /\ files[k].name = FileName(dataset[n], n, output_format)
                /\ root_exists
           ELSE FilesOf(n) = {}
    /\ \A j, k \in DOMAIN files : j # k => files[j].name # files[k].name
    /\ \A k \in DOMAIN files : files[k].index \in DOMAIN calls

\* of two elements, one was written as Parquet and the other was not
OneFilePerSurvivingRecordWitness ==
    /\ Len(results) = 2
    /\ output_format = "parquet"
    /\ Len(files) = 1
    /\ \E n \in DOMAIN calls : Rejected(calls[n])

PipelineIdempotent ==
    \A k \in DOMAIN files :
        files[k].index \in DOMAIN results =>
        \A st \in Stages(Start(files[k].table), config) :
            Running(st) /\ st.df = files[k].table

\* C7 amended: without column validation (drop_invalid_cols off), the stages
\* applied once more to a table that was written remove no row and no column;
\* they end with the same table, or reject it at the min-row check, which
\* happens only when the sampling had cut it to max_output_rows < min_rows.
PipelineIdempotentWithoutColumnValidation ==
    ~config.drop_invalid_cols =>
        \A k \in DOMAIN files :
            files[k].index \in DOMAIN results =>
            \A st \in Stages(Start(files[k].table), config) :
                /\ st.df = files[k].table
                /\ ~Running(st) =>
                       /\ Last(st.ran).stage = "min_rows"
                       /\ config.drop_extra_rows
                       /\ config.max_output_rows < config.min_rows[1]

\* a table that lost a column, a row to a filter and a row to deduplication was
\* written, with column validation off
PipelineIdempotentWitness ==
    /\ ~config.drop_invalid_cols
    /\ config.drop_extra_rows /\ config.max_output_rows = 2
    /\ \E n \in DOMAIN calls :
           /\ calls[n].wrote
           /\ Len(calls[n].df.cols) < Len(calls[n].ran[1].df.cols)
           /\ NumRows(calls[n].df) < NumRows(calls[n].ran[1].df)
           /\ \E k \in DOMAIN calls[n].ran : calls[n].ran[k].stage = "deduplication"

RowReductionExact ==
    \A n \in DOMAIN results :
        LET ran == calls[n].ran
        IN  \A k \in DOMAIN ran \ {1} :
                LET before == ran[k - 1].df
                    after == ran[k].df
                IN  /\ ran[k].stage = "row_reduction"
                       => /\ config.drop_extra_rows
                          /\ NumRows(before) > config.max_output_rows
                          /\ NumRows(after) = config.max_output_rows
                          /\ after.cols = before.cols
                          /\ \E idx \in Arrangements(NumRows(before), NumRows(after)) :
                                 after = TakeRows(before, idx)
                          /\ NumRows(after) = 0 => k = Len(ran) /\ RejectedAt(n)
                    /\ ran[k].stage = "write" /\ ran[k - 1].stage # "row_reduction"
                       => /\ ~config.drop_extra_rows
                             \/ NumRows(before) <= config.max_output_rows
                          /\ after = before

\* a table of two different rows was cut to one row and written
RowReductionWitness ==
    \E n \in DOMAIN results : \E k \in DOMAIN calls[n].ran :
        /\ calls[n].ran[k].stage = "row_reduction"
        /\ NumRows(calls[n].ran[k].df) = 1
        /\ Cardinality(Range(calls[n].ran[k - 1].df.rows)) = 2
        /\ calls[n].wrote

\* C10 as stated: with min_rows configured, every written table has at least
\* min_rows rows.
WrittenTableHasMinRows ==
    \A k \in DOMAIN files :
        config.min_rows # <<>> => NumRows(files[k].table) >= config.min_rows[1]

\* C10 amended: with min_rows configured, every written table had at least
\* min_rows rows at the check; it is written with at least min_rows rows when
\* drop_extra_rows is off or max_output_rows >= min_rows, and with exactly
\* max_output_rows rows otherwise.
WrittenTableHasMinRowsUnlessSampled ==
    \A k \in DOMAIN files :
        config.min_rows # <<>> =>
            /\ \E j \in DOMAIN calls[files[k].index].ran :
                   /\ calls[files[k].index].ran[j].stage = "min_rows"
                   /\ NumRows(calls[files[k].index].ran[j].df) >= config.min_rows[1]
            /\ IF config.drop_extra_rows /\ config.max_output_rows < config.min_rows[1]
               THEN NumRows(files[k].table) = config.max_output_rows
               ELSE NumRows(files[k].table) >= config.min_rows[1]

\* a table of two rows passed min_rows = 2 and was written with one row
WrittenBelowMinRowsWitness ==
    \E k \in DOMAIN files :
        /\ config.min_rows = <<2>>
        /\ NumRows(files[k].table) = 1

====
